---- MODULE Spec2Model ----
(***************************************************************************)
(* A model of the units library (package units): the unit-text parser of   *)
(* parse.go, the parsed-unit algebra and the conversion engine of          *)
(* units.go, the symbol and prefix tables of init.go and the JS binding of *)
(* js/js.go.                                                               *)
(*                                                                         *)
(* Unit texts are sequences of bytes.  An ASCII byte is written as the     *)
(* one-character string of its character; a byte of a multi-byte UTF-8     *)
(* encoding is written as its two hexadecimal digits ("C2", "B7").         *)
(* Cursor positions are 0-based byte offsets, as in the Go code.           *)
(*                                                                         *)
(* float64 quantities are modelled by their range behaviour: a quantity is *)
(* zero, +Inf, NaN or a positive finite value n/d * 10^e kept exactly; a   *)
(* result beyond the float64 range becomes +Inf, one below it becomes 0.   *)
(* The rounding of the significand is abstracted away.                     *)
(***************************************************************************)
EXTENDS Integers, Sequences, FiniteSets, TLC

VARIABLES heap, last

vars == <<heap, last>>

\* F applied to the value v: the body of F reads v by the name it gives it
\* (a local variable assigned once).
With(v, F(_)) == F(v)

(***************************************************************************)
(* Bytes and runes                                                         *)
(***************************************************************************)

\* The numeric value of each byte that occurs in a table key or an input.
ByteCode ==
  [b \in {" ", "(", ")", "-", "/", "0", "1", "2", "3", "4", "5", "6", "7",
          "8", "9", "^", "A", "B", "C", "D", "E", "F", "G", "H", "J", "K",
          "L", "M", "N", "P", "S", "T", "V", "W", "Y", "Z", "a", "b", "c",
          "d", "f", "g", "h", "k", "l", "m", "n", "o", "p", "q", "r", "s",
          "t", "u", "v", "x", "y", "z",
          "83", "84", "A9", "B0", "B7", "BC", "C2", "CE", "E2"} |->
     CASE b = " " -> 32 [] b = "(" -> 40 [] b = ")" -> 41 [] b = "-" -> 45
       [] b = "/" -> 47 [] b = "0" -> 48 [] b = "1" -> 49 [] b = "2" -> 50
       [] b = "3" -> 51 [] b = "4" -> 52 [] b = "5" -> 53 [] b = "6" -> 54
       [] b = "7" -> 55 [] b = "8" -> 56 [] b = "9" -> 57 [] b = "^" -> 94
       [] b = "A" -> 65 [] b = "B" -> 66 [] b = "C" -> 67 [] b = "D" -> 68
       [] b = "E" -> 69 [] b = "F" -> 70 [] b = "G" -> 71 [] b = "H" -> 72
       [] b = "J" -> 74 [] b = "K" -> 75 [] b = "L" -> 76 [] b = "M" -> 77
       [] b = "N" -> 78 [] b = "P" -> 80 [] b = "S" -> 83 [] b = "T" -> 84
       [] b = "V" -> 86 [] b = "W" -> 87 [] b = "Y" -> 89 [] b = "Z" -> 90
       [] b = "a" -> 97 [] b = "b" -> 98 [] b = "c" -> 99 [] b = "d" -> 100
       [] b = "f" -> 102 [] b = "g" -> 103 [] b = "h" -> 104
       [] b = "k" -> 107 [] b = "l" -> 108 [] b = "m" -> 109
       [] b = "n" -> 110 [] b = "o" -> 111 [] b = "p" -> 112
       [] b = "q" -> 113 [] b = "r" -> 114 [] b = "s" -> 115
       [] b = "t" -> 116 [] b = "u" -> 117 [] b = "v" -> 118
       [] b = "x" -> 120 [] b = "y" -> 121 [] b = "z" -> 122
       [] b = "83" -> 131 [] b = "84" -> 132 [] b = "A9" -> 169
       [] b = "B0" -> 176 [] b = "B7" -> 183 [] b = "BC" -> 188
       [] b = "C2" -> 194 [] b = "CE" -> 206 [] b = "E2" -> 226]

\* The rune utf8.DecodeRune reports for bytes that do not encode one.
RuneError == <<"FFFD">>

\* utf8.DecodeRune(data[pos:]): the rune (its encoding) and its width.
DecodeRune(data, pos) ==
  LET n == Len(data) - pos
      IsCont(i) == /\ i <= n
                   /\ ByteCode[data[pos + i]] >= 128
                   /\ ByteCode[data[pos + i]] < 192
  IN  IF n <= 0 THEN [r |-> RuneError, width |-> 0]
      ELSE With(ByteCode[data[pos + 1]], LAMBDA c0 :
        IF c0 < 128 THEN [r |-> <<data[pos + 1]>>, width |-> 1]
        ELSE IF c0 >= 194 /\ c0 < 224 /\ IsCont(2)
          THEN [r |-> SubSeq(data, pos + 1, pos + 2), width |-> 2]
        ELSE IF c0 >= 224 /\ c0 < 240 /\ IsCont(2) /\ IsCont(3)
          THEN [r |-> SubSeq(data, pos + 1, pos + 3), width |-> 3]
        ELSE [r |-> RuneError, width |-> 1])

\* unicode.IsSpace, on the runes of the byte alphabet.
IsSpace(r) == r = <<" ">>

\* unicode.IsDigit, on the runes of the byte alphabet.
IsDigit(r) ==
  r \in {<<"0">>, <<"1">>, <<"2">>, <<"3">>, <<"4">>, <<"5">>, <<"6">>,
         <<"7">>, <<"8">>, <<"9">>}

\* strings.HasPrefix(string(data[pos:]), key)
HasPrefix(data, pos, key) ==
  /\ pos + Len(key) <= Len(data)
  /\ SubSeq(data, pos + 1, pos + Len(key)) = key

\* Go's string comparison a < b: bytewise lexicographic.
RECURSIVE StrLess(_, _)
StrLess(a, b) ==
  IF b = <<>> THEN FALSE
  ELSE IF a = <<>> THEN TRUE
  ELSE IF ByteCode[Head(a)] # ByteCode[Head(b)]
    THEN ByteCode[Head(a)] < ByteCode[Head(b)]
  ELSE StrLess(Tail(a), Tail(b))

(***************************************************************************)
(* Dimension vectors and parsed units (units.go)                           *)
(***************************************************************************)

currentDim == 1
intensityDim == 2
lengthDim == 3
massDim == 4
amountDim == 5
timeDim == 6
temperatureDim == 7
temperatureCDim == 8
numDim == 8

\* uComponent is int8: arithmetic on it wraps around.
uComponent(x) == ((x + 128) % 256) - 128

\* The zero value of uPoint.
ZeroPoint == [i \in 1..numDim |-> 0]

\* mkpoint of makeUnits: a uPoint from (dimension, exponent) pairs.
mkpoint(m) ==
  [i \in 1..numDim |->
     IF \E p \in m : p[1] = i THEN (CHOOSE p \in m : p[1] = i)[2] ELSE 0]

\* &pUnit{Dim: dim, DimLess: dimLess, Scale: scale}
pUnit(dim, dimLess, scale) ==
  [Dim |-> dim, DimLess |-> dimLess, Scale |-> scale]

\* A nil *pUnit.
NilUnit == [Dim |-> <<>>, DimLess |-> <<>>, Scale |-> 0]

\* (*pUnit).product: the sum of all dimension factors.
RECURSIVE SumPoints(_, _)
SumPoints(dims, acc) ==
  IF dims = <<>> THEN acc
  ELSE SumPoints(Tail(dims),
                 [i \in 1..numDim |-> uComponent(acc[i] + Head(dims)[i])])

product(a) == SumPoints(Append(a.DimLess, a.Dim), ZeroPoint)

\* (*pUnit).Multiply
Multiply(a, b) ==
  LET r == product(a)
      q == product(b)
  IN  pUnit([i \in 1..numDim |-> uComponent(r[i] + q[i])], <<>>,
            a.Scale + b.Scale)

\* (*pUnit).Reciprocal
UnitReciprocal(a) ==
  LET r == product(a)
  IN  pUnit([i \in 1..numDim |-> uComponent(-r[i])], <<>>, -a.Scale)

\* (*pUnit).Exp
Exp(a, e) ==
  LET r == product(a)
  IN  pUnit([i \in 1..numDim |-> uComponent(e * r[i])], <<>>, e * a.Scale)

(***************************************************************************)
(* The prefix and symbol tables (init.go)                                  *)
(***************************************************************************)

\* longLess without the comparison of the lengths: keys in ascending order,
\* whatever their length.
lexLess(a, b) == StrLess(a, b)

\* longLess: longer keys first, keys of one length in ascending order.
longLess(a, b) ==
  IF Len(a) = Len(b) THEN StrLess(a, b) ELSE Len(a) > Len(b)

keyedScale(key, scale) == [Key |-> key, Scale |-> scale]

keyedUnit(key, unit) == [Key |-> key, Unit |-> unit]

\* The entries makeScales appends, in the order it appends them.
ScaleEntries ==
  << keyedScale(<<"d", "a">>, 1), keyedScale(<<"h">>, 2),
     keyedScale(<<"k">>, 3), keyedScale(<<"M">>, 6), keyedScale(<<"G">>, 9),
     keyedScale(<<"T">>, 12), keyedScale(<<"P">>, 15),
     keyedScale(<<"E">>, 18), keyedScale(<<"Z">>, 21),
     keyedScale(<<"Y">>, 24),
     keyedScale(<<"d">>, -1), keyedScale(<<"c">>, -2),
     keyedScale(<<"m">>, -3), keyedScale(<<"CE", "BC">>, -6),
     keyedScale(<<"u">>, -6), keyedScale(<<"n">>, -9),
     keyedScale(<<"p">>, -12), keyedScale(<<"f">>, -15),
     keyedScale(<<"a">>, -18), keyedScale(<<"z">>, -21),
     keyedScale(<<"y">>, -24) >>

\* The entries makeUnits appends, in the order it appends them.
UnitEntries ==
  << keyedUnit(<<"m">>, pUnit(mkpoint({<<lengthDim, 1>>}), <<>>, 0)),
     keyedUnit(<<"g">>, pUnit(mkpoint({<<massDim, 1>>}), <<>>, 0)),
     keyedUnit(<<"s">>, pUnit(mkpoint({<<timeDim, 1>>}), <<>>, 0)),
     keyedUnit(<<"A">>, pUnit(mkpoint({<<currentDim, 1>>}), <<>>, 0)),
     keyedUnit(<<"K">>, pUnit(mkpoint({<<temperatureDim, 1>>}), <<>>, 0)),
     keyedUnit(<<"m", "o", "l">>,
               pUnit(mkpoint({<<amountDim, 1>>}), <<>>, 0)),
     keyedUnit(<<"c", "d">>, pUnit(mkpoint({<<intensityDim, 1>>}), <<>>, 0)),
     keyedUnit(<<"r", "a", "d">>,
               pUnit(ZeroPoint, << mkpoint({<<lengthDim, 1>>}),
                                   mkpoint({<<lengthDim, -1>>}) >>, 0)),
     keyedUnit(<<"s", "r">>,
               pUnit(ZeroPoint, << mkpoint({<<lengthDim, 2>>}),
                                   mkpoint({<<lengthDim, -2>>}) >>, 0)),
     keyedUnit(<<"H", "z">>, pUnit(mkpoint({<<timeDim, -1>>}), <<>>, 0)),
     keyedUnit(<<"N">>,
               pUnit(mkpoint({<<massDim, 1>>, <<timeDim, -2>>,
                              <<lengthDim, 1>>}), <<>>, 3)),
     keyedUnit(<<"P", "a">>,
               pUnit(mkpoint({<<massDim, 1>>, <<lengthDim, -1>>,
                              <<timeDim, -2>>}), <<>>, 3)),
     keyedUnit(<<"J">>,
               pUnit(mkpoint({<<massDim, 1>>, <<lengthDim, 2>>,
                              <<timeDim, -2>>}), <<>>, 3)),
     keyedUnit(<<"W">>,
               pUnit(mkpoint({<<massDim, 1>>, <<lengthDim, 2>>,
                              <<timeDim, -3>>}), <<>>, 3)),
     keyedUnit(<<"C">>,
               pUnit(mkpoint({<<timeDim, 1>>, <<currentDim, 1>>}), <<>>, 0)),
     keyedUnit(<<"V">>,
               pUnit(mkpoint({<<massDim, 1>>, <<lengthDim, 2>>,
                              <<timeDim, -3>>, <<currentDim, -1>>}),
                     <<>>, 3)),
     keyedUnit(<<"F">>,
               pUnit(mkpoint({<<massDim, -1>>, <<lengthDim, -2>>,
                              <<timeDim, 4>>, <<currentDim, 2>>}),
                     <<>>, -3)),
     keyedUnit(<<"CE", "A9">>,
               pUnit(mkpoint({<<massDim, 1>>, <<lengthDim, 2>>,
                              <<timeDim, -3>>, <<currentDim, -2>>}),
                     <<>>, 3)),
     keyedUnit(<<"S">>,
               pUnit(mkpoint({<<massDim, -1>>, <<lengthDim, -2>>,
                              <<timeDim, 3>>, <<currentDim, 2>>}),
                     <<>>, -3)),
     keyedUnit(<<"W", "b">>,
               pUnit(mkpoint({<<massDim, 1>>, <<lengthDim, 2>>,
                              <<timeDim, -2>>, <<currentDim, -1>>}),
                     <<>>, 3)),
     keyedUnit(<<"T">>,
               pUnit(mkpoint({<<massDim, 1>>, <<timeDim, -2>>,
                              <<currentDim, -1>>}), <<>>, 3)),
     keyedUnit(<<"H">>,
               pUnit(mkpoint({<<massDim, 1>>, <<lengthDim, 2>>,
                              <<timeDim, -2>>, <<currentDim, -2>>}),
                     <<>>, 3)),
     keyedUnit(<<"C2", "B0", "C">>,
               pUnit(mkpoint({<<temperatureCDim, 1>>}), <<>>, 0)),
     keyedUnit(<<"E2", "84", "83">>,
               pUnit(mkpoint({<<temperatureCDim, 1>>}), <<>>, 0)),
     keyedUnit(<<"l", "m">>,
               pUnit(mkpoint({<<intensityDim, 1>>}),
                     << mkpoint({<<lengthDim, 2>>}),
                        mkpoint({<<lengthDim, -2>>}) >>, 0)),
     keyedUnit(<<"l", "x">>,
               pUnit(mkpoint({<<lengthDim, -2>>, <<intensityDim, 1>>}),
                     <<>>, 0)),
     keyedUnit(<<"B", "q">>, pUnit(mkpoint({<<timeDim, -1>>}), <<>>, 0)),
     keyedUnit(<<"G", "y">>,
               pUnit(mkpoint({<<lengthDim, 2>>, <<timeDim, -2>>}), <<>>, 0)),
     keyedUnit(<<"S", "v">>,
               pUnit(mkpoint({<<lengthDim, 2>>, <<timeDim, -2>>}), <<>>, 0)),
     keyedUnit(<<"k", "a", "t">>,
               pUnit(mkpoint({<<amountDim, 1>>, <<timeDim, -1>>}), <<>>, 0)),
     keyedUnit(<<"l">>, pUnit(mkpoint({<<lengthDim, 3>>}), <<>>, -3)),
     keyedUnit(<<"L">>, pUnit(mkpoint({<<lengthDim, 3>>}), <<>>, -3)),
     keyedUnit(<<"D", "a">>,
               pUnit(mkpoint({<<massDim, 1>>, <<amountDim, -1>>}),
                     <<>>, 0)) >>

\* sort.Sort of a keyed slice: its Less is longLess on the keys.
SortByKey(r) == SortSeq(r, LAMBDA x, y : longLess(x.Key, y.Key))

\* makeScales: the prefix table, sorted.
makeScales == SortByKey(ScaleEntries)

\* makeUnits: the symbol table, sorted.
makeUnits == SortByKey(UnitEntries)

\* init(): the package-level tables.
defaultScales == makeScales

defaultUnits == makeUnits

(***************************************************************************)
(* Errors                                                                  *)
(***************************************************************************)

\* An error value; NoError is Go's nil error.
Error(kind) == [kind |-> kind, matched |-> <<>>, rest |-> <<>>, cause |-> ""]

NoError == Error("nil")

symbolNotFound == Error("symbol not found")

prefixNotFound == Error("prefix not found")

unparsedText == Error("unparsed text")

divideByZero == Error("divide by zero")

wrongDimension == Error("wrong dimension")

underflow == Error("underflow")

overflow == Error("overflow")

\* makeRuneNotFoundError(r)
makeRuneNotFoundError(r) ==
  [kind |-> "rune not found", matched |-> <<>>, rest |-> r, cause |-> ""]

\* strconv.ParseInt's errors.
ErrSyntax == Error("invalid syntax")

ErrRange == Error("value out of range")

\* makeParseError(data, pos, err)
makeParseError(data, pos, err) ==
  [kind |-> "parse failed at", matched |-> SubSeq(data, 1, pos),
   rest |-> SubSeq(data, pos + 1, Len(data)), cause |-> err.kind]

\* err.Error(): the text of an error, as its pieces.
ErrorText(err) == <<err.kind, err.matched, err.rest, err.cause>>

(***************************************************************************)
(* The parser (parse.go)                                                   *)
(***************************************************************************)

\* bytes.IndexFunc(data[pos:], !unicode.IsSpace): the offset of the first
\* rune that is no space, or -1.
RECURSIVE IndexNonSpace(_, _, _)
IndexNonSpace(data, pos, i) ==
  IF pos + i >= Len(data) THEN -1
  ELSE LET d == DecodeRune(data, pos + i)
       IN  IF ~IsSpace(d.r) THEN i
           ELSE IndexNonSpace(data, pos, i + d.width)

\* scanToNonSpace
scanToNonSpace(data, pos, hadSpace) ==
  IF Len(data) <= pos THEN [pos |-> pos, hadSpace |-> hadSpace]
  ELSE With(IndexNonSpace(data, pos, 0), LAMBDA idx :
         IF idx < 0 THEN [pos |-> Len(data), hadSpace |-> TRUE]
         ELSE [pos |-> pos + idx, hadSpace |-> hadSpace \/ idx # 0])

\* scanToNonDigit
RECURSIVE ScanDigits(_, _, _)
ScanDigits(data, pos, idx) ==
  IF idx >= Len(data) THEN idx
  ELSE With(DecodeRune(data, idx), LAMBDA d :
         IF idx = pos /\ d.r = <<"-">>
           THEN ScanDigits(data, pos, idx + d.width)
         ELSE IF ~IsDigit(d.r) THEN idx
         ELSE ScanDigits(data, pos, idx + d.width))

scanToNonDigit(data, pos) == ScanDigits(data, pos, pos)

\* The value of a decimal digit.
DigitValue(b) == ByteCode[b] - 48

\* The value of a string of decimal digits, cut off above 128: every such
\* value is out of int8's range, whatever the sign.
RECURSIVE DigitsValue(_, _)
DigitsValue(s, acc) ==
  IF s = <<>> THEN acc
  ELSE IF acc > 128 THEN acc
  ELSE DigitsValue(Tail(s), 10 * acc + DigitValue(Head(s)))

\* strconv.ParseInt(s, 10, 8)
ParseInt8(s) ==
  LET neg    == s # <<>> /\ Head(s) = "-"
      digits == IF neg THEN Tail(s) ELSE s
  IN  IF digits = <<>> \/ \E i \in 1..Len(digits) : ~IsDigit(<<digits[i]>>)
        THEN [i |-> 0, err |-> ErrSyntax]
      ELSE With(DigitsValue(digits, 0), LAMBDA v :
        IF neg /\ v > 128 THEN [i |-> -128, err |-> ErrRange]
        ELSE IF ~neg /\ v > 127 THEN [i |-> 127, err |-> ErrRange]
        ELSE [i |-> IF neg THEN -v ELSE v, err |-> NoError])

\* parseRune
parseRune(data, pos, r) ==
  IF Len(data) <= pos THEN [pos |-> pos, err |-> makeRuneNotFoundError(r)]
  ELSE With(DecodeRune(data, pos), LAMBDA d :
         IF d.r # r THEN [pos |-> pos, err |-> makeRuneNotFoundError(r)]
         ELSE [pos |-> pos + d.width, err |-> NoError])

\* The first entry of a table whose key is a prefix of data[pos:], or 0.
RECURSIVE FirstMatch(_, _, _, _)
FirstMatch(table, data, pos, i) ==
  IF i > Len(table) THEN 0
  ELSE IF HasPrefix(data, pos, table[i].Key) THEN i
  ELSE FirstMatch(table, data, pos, i + 1)

\* parsePrefix
parsePrefix(data, pos) ==
  IF Len(data) <= pos THEN [scale |-> 0, pos |-> pos, err |-> prefixNotFound]
  ELSE With(FirstMatch(defaultScales, data, pos, 1), LAMBDA i :
         IF i # 0
           THEN With(defaultScales[i], LAMBDA ks :
                  [scale |-> ks.Scale, pos |-> pos + Len(ks.Key),
                   err |-> NoError])
         ELSE [scale |-> 0, pos |-> pos, err |-> prefixNotFound])

\* parseSymbol
parseSymbol(data, pos) ==
  IF Len(data) <= pos
    THEN [unit |-> NilUnit, pos |-> pos, err |-> prefixNotFound]
  ELSE With(FirstMatch(defaultUnits, data, pos, 1), LAMBDA i :
         IF i # 0
           THEN With(defaultUnits[i], LAMBDA ku :
                  [unit |-> ku.Unit, pos |-> pos + Len(ku.Key),
                   err |-> NoError])
         ELSE [unit |-> NilUnit, pos |-> pos, err |-> symbolNotFound])

\* parseTerm without its "scale = 0": the bare symbol of the second attempt
\* keeps the scale of the prefix of the first.
parseTermKeepsScale(data, startPos) ==
  With(parsePrefix(data, startPos), LAMBDA p :
  With(parseSymbol(data, p.pos), LAMBDA s1 :
    IF s1.err = NoError
      THEN [unit |-> pUnit(s1.unit.Dim, <<>>, p.scale), pos |-> s1.pos,
            err |-> NoError]
    ELSE With(parseSymbol(data, startPos), LAMBDA s2 :
      IF s2.err # NoError
        THEN [unit |-> NilUnit, pos |-> s2.pos, err |-> s2.err]
      ELSE [unit |-> pUnit(s2.unit.Dim, <<>>, p.scale), pos |-> s2.pos,
            err |-> NoError])))

\* parseTerm
parseTerm(data, startPos) ==
  With(parsePrefix(data, startPos), LAMBDA p :
  With(parseSymbol(data, p.pos), LAMBDA s1 :
    IF s1.err = NoError
      THEN [unit |-> pUnit(s1.unit.Dim, <<>>, p.scale), pos |-> s1.pos,
            err |-> NoError]
    ELSE With(parseSymbol(data, startPos), LAMBDA s2 :
      IF s2.err # NoError
        THEN [unit |-> NilUnit, pos |-> s2.pos, err |-> s2.err]
      ELSE [unit |-> pUnit(s2.unit.Dim, <<>>, 0), pos |-> s2.pos,
            err |-> NoError])))

\* parseExponent
parseExponent(data, pos) ==
  With(parseRune(data, pos, <<"^">>), LAMBDA r :
    IF r.err # NoError THEN [exp |-> 1, pos |-> r.pos, err |-> r.err]
    ELSE With(scanToNonDigit(data, r.pos), LAMBDA end :
         With(ParseInt8(SubSeq(data, r.pos + 1, end)), LAMBDA i :
           IF i.err # NoError THEN [exp |-> 1, pos |-> r.pos, err |-> i.err]
           ELSE [exp |-> i.i, pos |-> end, err |-> NoError])))

RECURSIVE parseUnit(_, _)

\* parseCombinator taking '/' for a multiplication: the right-hand side is
\* multiplied in as it is.
parseCombinatorNoReciprocal(data, unit, pos, hadSpace) ==
  With(parseRune(data, pos, <<"/">>), LAMBDA slash :
    IF slash.err = NoError
      THEN With(parseUnit(data, slash.pos), LAMBDA n :
             IF n.err # NoError
               THEN [unit |-> NilUnit, pos |-> n.pos, err |-> n.err]
             ELSE [unit |-> Multiply(unit, n.unit), pos |-> n.pos,
                   err |-> NoError])
    ELSE With(parseRune(data, slash.pos, <<"C2", "B7">>), LAMBDA dot :
      IF dot.err = NoError
        THEN With(parseUnit(data, dot.pos), LAMBDA n :
               IF n.err # NoError
                 THEN [unit |-> NilUnit, pos |-> n.pos, err |-> n.err]
               ELSE [unit |-> Multiply(unit, n.unit), pos |-> n.pos,
                     err |-> NoError])
      ELSE IF hadSpace
        THEN With(parseUnit(data, dot.pos), LAMBDA n :
               IF n.err = NoError
                 THEN [unit |-> Multiply(unit, n.unit), pos |-> n.pos,
                       err |-> NoError]
               ELSE [unit |-> unit, pos |-> n.pos, err |-> NoError])
      ELSE [unit |-> unit, pos |-> dot.pos, err |-> NoError]))

\* parseUnit from its "Unit := ..." comment on: the combinator after the
\* unit parsed so far, which ends at pos, and its right-hand side.
parseCombinator(data, unit, pos, hadSpace) ==
  With(parseRune(data, pos, <<"/">>), LAMBDA slash :
    IF slash.err = NoError
      THEN With(parseUnit(data, slash.pos), LAMBDA n :
             IF n.err # NoError
               THEN [unit |-> NilUnit, pos |-> n.pos, err |-> n.err]
             ELSE [unit |-> Multiply(unit, UnitReciprocal(n.unit)),
                   pos |-> n.pos, err |-> NoError])
    ELSE With(parseRune(data, slash.pos, <<"C2", "B7">>), LAMBDA dot :
      IF dot.err = NoError
        THEN With(parseUnit(data, dot.pos), LAMBDA n :
               IF n.err # NoError
                 THEN [unit |-> NilUnit, pos |-> n.pos, err |-> n.err]
               ELSE [unit |-> Multiply(unit, n.unit), pos |-> n.pos,
                     err |-> NoError])
      ELSE IF hadSpace
        THEN With(parseUnit(data, dot.pos), LAMBDA n :
               IF n.err = NoError
                 THEN [unit |-> Multiply(unit, n.unit), pos |-> n.pos,
                       err |-> NoError]
               ELSE [unit |-> unit, pos |-> n.pos, err |-> NoError])
      ELSE [unit |-> unit, pos |-> dot.pos, err |-> NoError]))

\* parseUnit from its "Unit := Unit ^ Integer" comment on: unit0 is the
\* parenthesized unit or the term just parsed, which ends at pos0.
parseUnitRest(data, unit0, pos0) ==
  With(scanToNonSpace(data, pos0, FALSE), LAMBDA s1 :
  With(parseExponent(data, s1.pos), LAMBDA x :
    IF x.err = NoError
      THEN With(scanToNonSpace(data, x.pos, FALSE), LAMBDA s2 :
             parseCombinator(data, Exp(unit0, x.exp), s2.pos, s2.hadSpace))
    ELSE parseCombinator(data, unit0, x.pos, s1.hadSpace)))

\* parseUnit
parseUnit(data, pos0) ==
  With(scanToNonSpace(data, pos0, FALSE), LAMBDA s :
  With(parseRune(data, s.pos, <<"(">>), LAMBDA open :
    IF open.err = NoError
      THEN With(parseUnit(data, open.pos), LAMBDA u :
             IF u.err # NoError
               THEN [unit |-> NilUnit, pos |-> u.pos, err |-> u.err]
             ELSE With(parseRune(data, u.pos, <<")">>), LAMBDA close :
               IF close.err # NoError
                 THEN [unit |-> NilUnit, pos |-> close.pos,
                       err |-> close.err]
               ELSE parseUnitRest(data, u.unit, close.pos)))
    ELSE With(parseTerm(data, open.pos), LAMBDA t :
           IF t.err # NoError
             THEN [unit |-> NilUnit, pos |-> t.pos, err |-> t.err]
           ELSE parseUnitRest(data, t.unit, t.pos))))

(***************************************************************************)
(* float64 quantities                                                      *)
(***************************************************************************)

FZero == [k |-> "zero", n |-> 0, d |-> 1, e |-> 0]

FInf == [k |-> "inf", n |-> 0, d |-> 1, e |-> 0]

FNaN == [k |-> "nan", n |-> 0, d |-> 1, e |-> 0]

RECURSIVE GCD(_, _)
GCD(a, b) == IF b = 0 THEN a ELSE GCD(b, a % b)

\* The positive value n/d * 10^e with 1 <= n/d < 10 and n/d in lowest terms.
RECURSIVE Normal(_, _, _)
Normal(n, d, e) ==
  IF n >= 10 * d THEN Normal(n, 10 * d, e + 1)
  ELSE IF n < d THEN Normal(10 * n, d, e - 1)
  ELSE With(GCD(n, d), LAMBDA g :
         [k |-> "fin", n |-> n \div g, d |-> d \div g, e |-> e])

\* The float64 nearest to the positive value n/d * 10^e, as far as its
\* range goes: above math.MaxFloat64 (1.7977e308) it is +Inf, up to half of
\* math.SmallestNonzeroFloat64 (2.470e-324) it is 0.
Float(n, d, e) ==
  With(Normal(n, d, e), LAMBDA v :
    IF v.e > 308 \/ (v.e = 308 /\ 10000 * v.n >= 17977 * v.d) THEN FInf
    ELSE IF v.e < -324 \/ (v.e = -324 /\ 1000 * v.n <= 2470 * v.d)
      THEN FZero
    ELSE v)

\* a * b in float64
FMul(a, b) ==
  IF a.k = "nan" \/ b.k = "nan" THEN FNaN
  ELSE IF a.k = "inf" \/ b.k = "inf"
    THEN IF a.k = "zero" \/ b.k = "zero" THEN FNaN ELSE FInf
  ELSE IF a.k = "zero" \/ b.k = "zero" THEN FZero
  ELSE Float(a.n * b.n, a.d * b.d, a.e + b.e)

\* 1.0 / a in float64, for a # 0
FInv(a) ==
  IF a.k = "nan" THEN FNaN
  ELSE IF a.k = "inf" THEN FZero
  ELSE IF a.k = "zero" THEN FInf
  ELSE Float(a.d, a.n, -a.e)

\* math.Pow10(n): 0 below 1e-323, +Inf above 1e308.
Pow10(n) ==
  IF n > 308 THEN FInf
  ELSE IF n < -323 THEN FZero
  ELSE [k |-> "fin", n |-> 1, d |-> 1, e |-> n]

\* math.IsInf(f, 0)
IsInf(f) == f.k = "inf"

(***************************************************************************)
(* Measurements and the conversion engine (units.go, parse.go)             *)
(***************************************************************************)

\* &measure{Value: value, Unit: unitText, unit: unit}
measure(value, unitText, unit) ==
  [Value |-> value, Unit |-> unitText, unit |-> unit]

\* theZero = &pUnit{}
theZero == pUnit(ZeroPoint, <<>>, 0)

\* The address of zeroValue, the measure New and Reciprocal return with an
\* error; the heap holds it from initialization on.
zeroValue == 1

\* A nil Measurement.
NilMeasurement == 0

\* A Measurement handed to the library: a *measure in the heap (addr # 0),
\* or a value of another type implementing the interface (addr = 0), such
\* as the JS binding's Measurement{Value, Unit}.
Internal(a) == [addr |-> a, Value |-> FZero, Unit |-> <<>>]

External(value, unitText) == [addr |-> 0, Value |-> value, Unit |-> unitText]

\* m.Quantity() and m.MeasurementUnit() of a Measurement, in heap h.
Quantity(h, m) == IF m.addr # 0 THEN h[m.addr].Value ELSE m.Value

MeasurementUnit(h, m) == IF m.addr # 0 THEN h[m.addr].Unit ELSE m.Unit

\* Parse: the measure it returns (ok) or the error it returns with a nil
\* Measurement.
Parse(quantity, unitString) ==
  IF Len(unitString) = 0
    THEN [ok |-> TRUE, m |-> measure(FZero, <<>>, theZero), err |-> NoError]
  ELSE With(parseUnit(unitString, 0), LAMBDA u :
    IF u.err # NoError
      THEN [ok |-> FALSE, m |-> measure(FZero, <<>>, NilUnit),
            err |-> makeParseError(unitString, u.pos, u.err)]
    ELSE With(scanToNonSpace(unitString, u.pos, FALSE), LAMBDA s :
      IF s.pos # Len(unitString)
        THEN [ok |-> FALSE, m |-> measure(FZero, <<>>, NilUnit),
              err |-> makeParseError(unitString, s.pos, unparsedText)]
      ELSE [ok |-> TRUE, m |-> measure(quantity, unitString, u.unit),
            err |-> NoError]))

\* parse: the *measure behind a Measurement.  A *measure is returned as it
\* is (addr is its address); any other Measurement is parsed into a new
\* measure (addr = 0: not in the heap yet).
parse(h, mm) ==
  IF mm.addr # 0
    THEN [ok |-> TRUE, addr |-> mm.addr, m |-> h[mm.addr], err |-> NoError]
  ELSE With(Parse(Quantity(h, mm), MeasurementUnit(h, mm)), LAMBDA r :
         [ok |-> r.ok, addr |-> 0, m |-> r.m, err |-> r.err])

\* Reciprocal: the heap after the call, the address returned and the error.
\* m is written through the pointer parse returned: a *measure passed in is
\* changed where it is, any other Measurement gets a new measure.
Reciprocal(h, mm) ==
  With(parse(h, mm), LAMBDA r :
    IF ~r.ok THEN [heap |-> h, ret |-> zeroValue, err |-> r.err]
    ELSE IF r.m.Value = FZero
      THEN [heap |-> h, ret |-> zeroValue, err |-> divideByZero]
    ELSE With(measure(FInv(r.m.Value),
                      IF Len(r.m.Unit) # 0
                        THEN <<"(">> \o r.m.Unit \o <<")", "^", "-", "1">>
                        ELSE r.m.Unit,
                      UnitReciprocal(r.m.unit)), LAMBDA m :
      IF r.addr # 0
        THEN [heap |-> [h EXCEPT ![r.addr] = m], ret |-> r.addr,
              err |-> NoError]
      ELSE [heap |-> Append(h, m), ret |-> Len(h) + 1, err |-> NoError]))

\* The loop of New over ms: the running value and unit, or the first error.
RECURSIVE NewLoop(_, _, _, _)
NewLoop(h, ms, value, unit) ==
  IF ms = <<>> THEN [ok |-> TRUE, value |-> value, unit |-> unit,
                     err |-> NoError]
  ELSE With(parse(h, Head(ms)), LAMBDA r :
         IF ~r.ok THEN [ok |-> FALSE, value |-> value, unit |-> unit,
                        err |-> r.err]
         ELSE NewLoop(h, Tail(ms), FMul(value, r.m.Value),
                      Multiply(unit, r.m.unit)))

\* scaleDiff with the two scales exchanged.
scaleDiffExchanged(unit, target) == target.Scale - unit.Scale

\* scaleDiff := unit.Scale - target.unit.Scale
scaleDiff(unit, target) == unit.Scale - target.Scale

\* NewResult with the checks of the value made before the check of the
\* dimensions.
NewResultValueFirst(h, unitString, value, unit, target) ==
  With(FMul(value, Pow10(unit.Scale - target.Scale)), LAMBDA scaled :
    IF scaled = FZero
      THEN [heap |-> h, ret |-> zeroValue, err |-> underflow]
    ELSE IF IsInf(scaled)
      THEN [heap |-> h, ret |-> zeroValue, err |-> overflow]
    ELSE IF product(target) # product(unit)
      THEN [heap |-> h, ret |-> zeroValue, err |-> wrongDimension]
    ELSE [heap |-> Append(h, measure(scaled, unitString, unit)),
          ret |-> Len(h) + 1, err |-> NoError])

\* New from the dimension check on: value and unit are the running product
\* and unit of the measurements, target the parsed unit of unitString.
NewResult(h, unitString, value, unit, target) ==
  IF product(target) # product(unit)
    THEN [heap |-> h, ret |-> zeroValue, err |-> wrongDimension]
  ELSE With(FMul(value, Pow10(scaleDiff(unit, target))), LAMBDA scaled :
    IF scaled = FZero
      THEN [heap |-> h, ret |-> zeroValue, err |-> underflow]
    ELSE IF IsInf(scaled)
      THEN [heap |-> h, ret |-> zeroValue, err |-> overflow]
    ELSE [heap |-> Append(h, measure(scaled, unitString, unit)),
          ret |-> Len(h) + 1, err |-> NoError])

\* New: the heap after the call, the address returned and the error.
New(h, unitString, m0, ms) ==
  With(parse(h, m0), LAMBDA r0 :
    IF ~r0.ok THEN [heap |-> h, ret |-> zeroValue, err |-> r0.err]
    ELSE With(NewLoop(h, ms, r0.m.Value, r0.m.unit), LAMBDA acc :
      IF ~acc.ok THEN [heap |-> h, ret |-> zeroValue, err |-> acc.err]
      ELSE With(Parse(FZero, unitString), LAMBDA targetM :
        IF ~targetM.ok
          THEN [heap |-> h, ret |-> zeroValue, err |-> targetM.err]
        ELSE NewResult(h, unitString, acc.value, acc.unit,
                       targetM.m.unit))))

(***************************************************************************)
(* The JS binding (js/js.go)                                               *)
(***************************************************************************)

\* The binding's Measurement{Value: value, Unit: unitText}
JsMeasurement(value, unitText) == [Value |-> value, Unit |-> unitText]

\* (*ulib).Parse: m.Quantity() is called on whatever units.Parse returned;
\* on a nil Measurement that is a nil dereference and the call panics.
ulibParse(quantity, unitString) ==
  With(Parse(quantity, unitString), LAMBDA r :
    IF ~r.ok
      THEN [panicked |-> TRUE, obj |-> JsMeasurement(FZero, <<>>),
            err |-> r.err]
    ELSE [panicked |-> FALSE, obj |-> JsMeasurement(r.m.Value, r.m.Unit),
          err |-> r.err])

\* ms as units.Measurement values (the casts of (*ulib).New)
RECURSIVE Casts(_)
Casts(ms) ==
  IF ms = <<>> THEN <<>>
  ELSE <<External(Head(ms).Value, Head(ms).Unit)>> \o Casts(Tail(ms))

\* (*ulib).New
ulibNew(h, unitString, ms) ==
  IF Len(ms) = 0
    THEN [panicked |-> FALSE, obj |-> JsMeasurement(FZero, <<>>),
          err |-> Error("not enough arguments")]
  ELSE With(Casts(ms), LAMBDA casts :
       With(New(h, unitString, Head(casts), Tail(casts)), LAMBDA r :
       With(r.heap[r.ret], LAMBDA m :
         [panicked |-> FALSE, obj |-> JsMeasurement(m.Value, m.Unit),
          err |-> r.err])))

(***************************************************************************)
(* The state machine: a client calling the library                         *)
(*                                                                         *)
(* heap: the measures a caller holds a pointer to, by address; heap[1] is  *)
(*       zeroValue.                                                        *)
(* last: the last call: its operation and arguments, the heap before it    *)
(*       (pre), and what it returned.                                      *)
(***************************************************************************)

\* The heap holds at most MaxHeap measures.
MaxHeap == 3

\* New is called with at most MaxArgs measurements after the first.
MaxArgs == 1

\* Reciprocal is called on measures whose unit text has at most MaxUnitLen
\* bytes (every call lengthens the text).
MaxUnitLen == 6

\* math.SmallestNonzeroFloat64, 4.94e-324
SmallestNonzeroFloat64 == Float(494, 100, -324)

Quantities == {FZero, Float(3, 1, 0), SmallestNonzeroFloat64}

UnitTexts == {<<>>, <<"m">>, <<"m", "m">>, <<"x">>}

Externals ==
  {External(Float(3, 1, 0), <<"m", "m">>), External(Float(2, 1, 0), <<>>),
   External(Float(2, 1, 0), <<"x">>)}

\* The Measurements a caller can pass in heap h.
Measurements(h) == {Internal(a) : a \in 1..Len(h)} \cup Externals

\* The sequences over S of length at most n.
SeqsUpTo(S, n) == UNION {[1..k -> S] : k \in 0..n}

NoCall ==
  [op |-> "none", quantity |-> FZero, unitString |-> <<>>, ms |-> <<>>,
   pre |-> <<>>, ret |-> NilMeasurement, err |-> NoError,
   panicked |-> FALSE, obj |-> JsMeasurement(FZero, <<>>)]

Init ==
  /\ heap = <<measure(FZero, <<>>, pUnit(ZeroPoint, <<>>, 0))>>
  /\ last = NoCall

\* m, err := Parse(quantity, unitString)
CallParse(quantity, unitString) ==
  /\ last.op = "none"
  /\ \E r \in {Parse(quantity, unitString)} :
       /\ r.ok => Len(heap) < MaxHeap
       /\ heap' = IF r.ok THEN Append(heap, r.m) ELSE heap
       /\ last' = [NoCall EXCEPT !.op = "Parse", !.quantity = quantity,
                                 !.unitString = unitString, !.pre = heap,
                                 !.ret = IF r.ok THEN Len(heap) + 1
                                         ELSE NilMeasurement,
                                 !.err = r.err]

\* r, err := Reciprocal(mm)
CallReciprocal(mm) ==
  /\ last.op = "none"
  /\ Len(MeasurementUnit(heap, mm)) <= MaxUnitLen
  /\ \E r \in {Reciprocal(heap, mm)} :
       /\ Len(r.heap) <= MaxHeap
       /\ heap' = r.heap
       /\ last' = [NoCall EXCEPT !.op = "Reciprocal", !.ms = <<mm>>,
                                 !.pre = heap, !.ret = r.ret, !.err = r.err]

\* r, err := New(unitString, m0, ms...)
CallNew(unitString, m0, ms) ==
  /\ last.op = "none"
  /\ \E r \in {New(heap, unitString, m0, ms)} :
       /\ Len(r.heap) <= MaxHeap
       /\ heap' = r.heap
       /\ last' = [NoCall EXCEPT !.op = "New", !.unitString = unitString,
                                 !.ms = <<m0>> \o ms, !.pre = heap,
                                 !.ret = r.ret, !.err = r.err]

\* The caller has looked at what the call returned and goes on to its
\* next call.
Continue ==
  /\ last.op # "none"
  /\ last' = NoCall
  /\ UNCHANGED heap

Next ==
  \/ \E q \in Quantities, t \in UnitTexts : CallParse(q, t)
  \/ \E mm \in Measurements(heap) : CallReciprocal(mm)
  \/ \E t \in UnitTexts, m0 \in Measurements(heap),
        ms \in SeqsUpTo(Measurements(heap), MaxArgs) : CallNew(t, m0, ms)
  \/ Continue

Spec == Init /\ [][Next]_vars

(***************************************************************************)
(* The JS binding's caller                                                 *)
(***************************************************************************)

JsUnitTexts ==
  {<<>>, <<"m">>, <<"m", "l">>, <<"L">>, <<"g">>, <<"x">>,
   <<"b", "a", "d", "u", "n", "i", "t">>}

JsMeasurements ==
  {JsMeasurement(Float(1, 1, 0), <<"L">>), JsMeasurement(Float(2, 1, 0), <<"g">>),
   JsMeasurement(Float(2, 1, 0), <<"x">>)}

\* units.Parse(quantity, unitString) from JS
CallJsParse(quantity, unitString) ==
  \E r \in {ulibParse(quantity, unitString)} :
      /\ heap' = heap
      /\ last' = [NoCall EXCEPT !.op = "js.Parse", !.quantity = quantity,
                                !.unitString = unitString, !.pre = heap,
                                !.err = r.err, !.panicked = r.panicked,
                                !.obj = r.obj]

\* units.New(unitString, ms...) from JS
CallJsNew(unitString, ms) ==
  \E r \in {ulibNew(heap, unitString, ms)} :
      /\ heap' = heap
      /\ last' = [NoCall EXCEPT !.op = "js.New", !.unitString = unitString,
                                !.ms = Casts(ms), !.pre = heap,
                                !.err = r.err, !.panicked = r.panicked,
                                !.obj = r.obj]

NextJs ==
  \/ \E q \in Quantities, t \in JsUnitTexts : CallJsParse(q, t)
  \/ \E t \in JsUnitTexts, ms \in SeqsUpTo(JsMeasurements, MaxArgs + 1) :
        CallJsNew(t, ms)

SpecJs == Init /\ [][NextJs]_vars

(***************************************************************************)
(* The parser's caller: unit texts put together from parts                 *)
(*                                                                         *)
(* last: the text parsed (data) and the parts it was put together from,    *)
(*       what parseUnit(data, 0) returned (unit, end, err) and whether     *)
(*       Parse accepted the text (parsed, perr); or the table lookup made  *)
(*       at data[pos:] and what it returned (scale or unit, end, err).     *)
(***************************************************************************)

\* The three binary combinators: '/', the center dot and whitespace.
Combinators == {<<"/">>, <<"C2", "B7">>, <<" ">>}

\* Units without a combinator outside parentheses:
\* m, kg, A^2, (m s), (s/g)
Operands ==
  {<<"m">>, <<"k", "g">>, <<"A", "^", "2">>,
   <<"(", "m", " ", "s", ")">>, <<"(", "s", "/", "g", ")">>}

\* m/s, g·A
Units == Operands \cup {<<"m", "/", "s">>, <<"g", "C2", "B7", "A">>}

\* Texts that are no unit: x, (s, (, 2, (s/x
BadUnits ==
  {<<"x">>, <<"(", "s">>, <<"(">>, <<"2">>, <<"(", "s", "/", "x">>}

\* kg·m/(s^2 s), (m, m (s, N, Hz, N/m^2
Texts ==
  {<<"k", "g", "C2", "B7", "m", "/", "(", "s", "^", "2", " ", "s", ")">>,
   <<"(", "m">>, <<"m", " ", "(", "s">>, <<"N">>, <<"H", "z">>,
   <<"N", "/", "m", "^", "2">>}

\* The texts parsed, as the parts they are put together from.
PartSeqs ==
  {<<t>> : t \in Texts \cup Units \cup BadUnits}
    \cup {<<a, <<" ">>, r>> : a \in Operands, r \in BadUnits}
    \cup {<<a, s1, b, s2, c>> :
            a \in Units, s1 \in Combinators, b \in Units,
            s2 \in Combinators, c \in Units}

\* The parts one after the other.
RECURSIVE Concat(_)
Concat(parts) ==
  IF parts = <<>> THEN <<>> ELSE Head(parts) \o Concat(Tail(parts))

\* The elements of a sequence.
Range(r) == {r[i] : i \in 1..Len(r)}

\* The texts the tables are looked up in: every key, followed by nothing or
\* by one more byte.
KeyTexts ==
  {e.Key \o t : e \in Range(ScaleEntries) \cup Range(UnitEntries),
                t \in {<<>>, <<"m">>, <<"a">>, <<"z">>}}

ParserNoCall ==
  [op |-> "none", parts |-> <<>>, data |-> <<>>, pos |-> 0,
   unit |-> NilUnit, scale |-> 0, end |-> 0, err |-> NoError,
   parsed |-> FALSE, perr |-> NoError]

InitParser ==
  /\ heap = <<measure(FZero, <<>>, pUnit(ZeroPoint, <<>>, 0))>>
  /\ last = ParserNoCall

\* Parse(0, data), and the parseUnit(data, 0) it begins with
ParseText(parts) ==
  /\ last.op = "none"
  /\ \E data \in {Concat(parts)} :
       \E r \in {parseUnit(data, 0)}, p \in {Parse(FZero, data)} :
         last' = [ParserNoCall EXCEPT !.op = "parseUnit", !.parts = parts,
                                      !.data = data, !.unit = r.unit,
                                      !.end = r.pos, !.err = r.err,
                                      !.parsed = p.ok, !.perr = p.err]
  /\ UNCHANGED heap

\* parsePrefix(data, pos)
LookupPrefix(data, pos) ==
  /\ last.op = "none"
  /\ \E r \in {parsePrefix(data, pos)} :
       last' = [ParserNoCall EXCEPT !.op = "parsePrefix", !.data = data,
                                    !.pos = pos, !.scale = r.scale,
                                    !.end = r.pos, !.err = r.err]
  /\ UNCHANGED heap

\* parseSymbol(data, pos)
LookupSymbol(data, pos) ==
  /\ last.op = "none"
  /\ \E r \in {parseSymbol(data, pos)} :
       last' = [ParserNoCall EXCEPT !.op = "parseSymbol", !.data = data,
                                    !.pos = pos, !.unit = r.unit,
                                    !.end = r.pos, !.err = r.err]
  /\ UNCHANGED heap

\* The caller goes on to its next text.
ParserContinue ==
  /\ last.op # "none"
  /\ last' = ParserNoCall
  /\ UNCHANGED heap

NextParser ==
  \/ \E parts \in PartSeqs : ParseText(parts)
  \/ ParserContinue

SpecParser == InitParser /\ [][NextParser]_vars

\* The caller of the table lookups alone.
NextLookup ==
  \/ \E data \in KeyTexts, pos \in 0..1 : LookupPrefix(data, pos)
  \/ \E data \in KeyTexts, pos \in 0..1 : LookupSymbol(data, pos)
  \/ ParserContinue

SpecLookup == InitParser /\ [][NextLookup]_vars

(***************************************************************************)
(* The parser's caller: units with exponents                               *)
(***************************************************************************)

\* The terms an exponent is put after: s, m, kg
ExponentTerms == {<<"s">>, <<"m">>, <<"k", "g">>}

\* The texts put after a '^': nothing, -, 2, -1, 16, 127, -128, 128, 999
ExponentTexts ==
  {<<>>, <<"-">>, <<"2">>, <<"-", "1">>, <<"1", "6">>, <<"1", "2", "7">>,
   <<"-", "1", "2", "8">>, <<"1", "2", "8">>, <<"9", "9", "9">>}

\* What follows the exponent: nothing, /m, ·m or " m"
ExponentTails ==
  {<<>>, <<"/", "m">>, <<"C2", "B7", "m">>, <<" ", "m">>}

\* The texts t^x, t^x/m, t^x·m, "t^x m" and (t^a)^b.
ExponentPartSeqs ==
  {<<t, <<"^">>, x, tail>> :
     t \in ExponentTerms, x \in ExponentTexts, tail \in ExponentTails}
    \cup {<< <<"(">>, t, <<"^">>, a, <<")">>, <<"^">>, b >> :
            t \in ExponentTerms, a \in ExponentTexts, b \in ExponentTexts}

NextExponent ==
  \/ \E parts \in ExponentPartSeqs : ParseText(parts)
  \/ ParserContinue

SpecExponent == InitParser /\ [][NextExponent]_vars

(***************************************************************************)
(* The parser's caller: terms                                              *)
(***************************************************************************)

\* The texts a term is parsed in: every key, followed by nothing or by one
\* more byte, and kmol, molk, mmol, dam, daN, mL, uF, xm
TermTexts ==
  KeyTexts \cup
    {<<"k", "m", "o", "l">>, <<"m", "o", "l", "k">>, <<"m", "m", "o", "l">>,
     <<"d", "a", "m">>, <<"d", "a", "N">>, <<"m", "L">>, <<"u", "F">>,
     <<"x", "m">>}

\* parseTerm(data, pos)
LookupTerm(data, pos) ==
  /\ last.op = "none"
  /\ \E r \in {parseTerm(data, pos)} :
       last' = [ParserNoCall EXCEPT !.op = "parseTerm", !.data = data,
                                    !.pos = pos, !.unit = r.unit,
                                    !.end = r.pos, !.err = r.err]
  /\ UNCHANGED heap

NextTerm ==
  \/ \E data \in TermTexts, pos \in 0..1 : LookupTerm(data, pos)
  \/ ParserContinue

SpecTerm == InitParser /\ [][NextTerm]_vars

(***************************************************************************)
(* Concurrent callers                                                      *)
(*                                                                         *)
(* heap: the measures in memory, by address; heap[1] is zeroValue.         *)
(* last: for every goroutine, where it is in Reciprocal (pc), the address  *)
(*       of the measure m it works on (addr), and what its last call       *)
(*       returned (ret, err).                                              *)
(* Reciprocal is taken statement by statement, for it writes through m;    *)
(* Parse and New write nothing but the measure they allocate.              *)
(***************************************************************************)

Goroutines == {1, 2}

ConcQuantities == {FZero, Float(3, 1, 0)}

\* "", m, rad
ConcUnitTexts == {<<>>, <<"m">>, <<"r", "a", "d">>}

ConcExternals == {External(Float(3, 1, 0), <<"m">>)}

ConcMeasurements(h) == {Internal(a) : a \in 1..Len(h)} \cup ConcExternals

Idle == [pc |-> "idle", addr |-> 0, ret |-> NilMeasurement, err |-> NoError]

InitConc ==
  /\ heap = <<measure(FZero, <<>>, pUnit(ZeroPoint, <<>>, 0))>>
  /\ last = [g \in Goroutines |-> Idle]

\* Reciprocal with "if m.Value == 0.0" never taken.
ReciprocalNeverDivides(value) == FALSE

\* if m.Value == 0.0
ReciprocalDivides(value) == value = FZero

\* goroutine g: m, err := Parse(quantity, unitString)
GoParse(g, quantity, unitString) ==
  /\ last[g].pc = "idle"
  /\ \E r \in {Parse(quantity, unitString)} :
       /\ r.ok => Len(heap) < MaxHeap
       /\ heap' = IF r.ok THEN Append(heap, r.m) ELSE heap
       /\ last' = [last EXCEPT ![g] =
                     [Idle EXCEPT !.ret = IF r.ok THEN Len(heap) + 1
                                          ELSE NilMeasurement,
                                  !.err = r.err]]

\* goroutine g: r, err := New(unitString, m0, ms...)
GoNew(g, unitString, m0, ms) ==
  /\ last[g].pc = "idle"
  /\ \E r \in {New(heap, unitString, m0, ms)} :
       /\ Len(r.heap) <= MaxHeap
       /\ heap' = r.heap
       /\ last' = [last EXCEPT ![g] =
                     [Idle EXCEPT !.ret = r.ret, !.err = r.err]]

\* goroutine g enters Reciprocal(mm): m, err := parse(mm)
GoReciprocal(g, mm) ==
  /\ last[g].pc = "idle"
  /\ Len(MeasurementUnit(heap, mm)) <= MaxUnitLen
  /\ \E r \in {parse(heap, mm)} :
       /\ (r.ok /\ r.addr = 0) => Len(heap) < MaxHeap
       /\ heap' = IF r.ok /\ r.addr = 0 THEN Append(heap, r.m) ELSE heap
       /\ last' = [last EXCEPT ![g] =
                     IF ~r.ok
                       THEN [Idle EXCEPT !.ret = zeroValue, !.err = r.err]
                     ELSE [Idle EXCEPT !.pc = "check",
                                       !.addr = IF r.addr = 0
                                                  THEN Len(heap) + 1
                                                ELSE r.addr]]

\* if m.Value == 0.0 { return zeroValue, divideByZero }
GoReciprocalCheck(g) ==
  /\ last[g].pc = "check"
  /\ last' = [last EXCEPT ![g] =
                IF ReciprocalDivides(heap[last[g].addr].Value)
                  THEN [@ EXCEPT !.pc = "idle", !.ret = zeroValue,
                                 !.err = divideByZero]
                ELSE [@ EXCEPT !.pc = "value"]]
  /\ UNCHANGED heap

\* m.Value = 1.0 / m.Value
GoReciprocalValue(g) ==
  /\ last[g].pc = "value"
  /\ heap' = [heap EXCEPT ![last[g].addr].Value = FInv(@)]
  /\ last' = [last EXCEPT ![g].pc = "unit"]

\* m.unit = m.unit.Reciprocal()
GoReciprocalUnit(g) ==
  /\ last[g].pc = "unit"
  /\ heap' = [heap EXCEPT ![last[g].addr].unit = UnitReciprocal(@)]
  /\ last' = [last EXCEPT ![g].pc = "text"]

\* if len(m.Unit) != 0 { m.Unit = "(" + m.Unit + ")^-1" }; return m, nil
GoReciprocalText(g) ==
  /\ last[g].pc = "text"
  /\ heap' = [heap EXCEPT ![last[g].addr].Unit =
                IF Len(@) # 0 THEN <<"(">> \o @ \o <<")", "^", "-", "1">>
                ELSE @]
  /\ last' = [last EXCEPT ![g].pc = "idle", ![g].ret = last[g].addr]

NextConc ==
  \E g \in Goroutines :
    \/ \E q \in ConcQuantities, t \in ConcUnitTexts : GoParse(g, q, t)
    \/ \E t \in ConcUnitTexts, a \in 1..Len(heap) :
         GoNew(g, t, Internal(a), <<>>)
    \/ \E mm \in ConcMeasurements(heap) : GoReciprocal(g, mm)
    \/ GoReciprocalCheck(g)
    \/ GoReciprocalValue(g)
    \/ GoReciprocalUnit(g)
    \/ GoReciprocalText(g)

SpecConc == InitConc /\ [][NextConc]_vars

(***************************************************************************)
(* Properties of New, Reciprocal and Parse (Spec)                          *)
(***************************************************************************)

\* Every argument of a call resolves (parse returns no error) in heap h.
AllResolve(h, ms) == \A i \in 1..Len(ms) : parse(h, ms[i]).ok

\* q0 * q1 * ... * qn, multiplied from the left: the quantities of the
\* measures the arguments resolve to.
RECURSIVE ProductOfQuantities(_, _)
ProductOfQuantities(h, ms) ==
  IF Len(ms) = 1 THEN parse(h, ms[1]).m.Value
  ELSE FMul(ProductOfQuantities(h, SubSeq(ms, 1, Len(ms) - 1)),
            parse(h, ms[Len(ms)]).m.Value)

\* The sum of the scale exponents of the measures the arguments resolve to.
RECURSIVE SumOfScales(_, _)
SumOfScales(h, ms) ==
  IF ms = <<>> THEN 0
  ELSE parse(h, Head(ms)).m.unit.Scale + SumOfScales(h, Tail(ms))

\* The sum over the arguments of component d of their folded dimension
\* vectors.
RECURSIVE SumOfDimension(_, _, _)
SumOfDimension(h, ms, d) ==
  IF ms = <<>> THEN 0
  ELSE product(parse(h, Head(ms)).m.unit)[d] + SumOfDimension(h, Tail(ms), d)

\* The folded dimension vector of the product of the arguments' units.
FoldedDimensions(h, ms) ==
  [d \in 1..numDim |-> uComponent(SumOfDimension(h, ms, d))]

\* The parsed unit of a target unit text.
TargetUnit(unitString) == Parse(FZero, unitString).m.unit

\* The product of the quantities, rescaled to the target unit.
Rescaled(h, ms, unitString) ==
  FMul(ProductOfQuantities(h, ms),
       Pow10(SumOfScales(h, ms) - TargetUnit(unitString).Scale))

\* C1: whenever New succeeds, the measure it returns has the quantity
\* (q0 * ... * qn) * 10^(sum of the inputs' scale exponents - the target's
\* scale exponent), where qi and the scale exponents are those of the
\* measures the inputs resolve to, and has the literal target text as its
\* unit text; New("mm", 3 m) succeeds with 3000 "mm".
C1_NewQuantity ==
  /\ (last.op = "New" /\ last.err = NoError) =>
       /\ heap[last.ret].Value =
            Rescaled(last.pre, last.ms, last.unitString)
       /\ heap[last.ret].Unit = last.unitString
  /\ (/\ last.op = "New"
      /\ last.unitString = <<"m", "m">>
      /\ Len(last.ms) = 1
      /\ parse(last.pre, last.ms[1]).ok
      /\ parse(last.pre, last.ms[1]).m.Value = Float(3, 1, 0)
      /\ parse(last.pre, last.ms[1]).m.unit = parseUnit(<<"m">>, 0).unit) =>
       /\ last.err = NoError
       /\ heap[last.ret].Value = Float(3000, 1, 0)
       /\ heap[last.ret].Unit = <<"m", "m">>

\* New has succeeded on two measurements whose scales do not add up to the
\* target's: the product of the quantities has been rescaled.
C1_Witness ==
  /\ last.op = "New"
  /\ last.err = NoError
  /\ Len(last.ms) = 2
  /\ SumOfScales(last.pre, last.ms) # TargetUnit(last.unitString).Scale
  /\ heap[last.ret].Value # ProductOfQuantities(last.pre, last.ms)

\* C2: when every input and the target unit text parse, New fails with the
\* wrong-dimension error if and only if the folded dimension vector of the
\* product of the inputs' units differs from the folded dimension vector of
\* the target unit, also when the rescaled value is zero or infinite.
C2_WrongDimension ==
  (/\ last.op = "New"
   /\ AllResolve(last.pre, last.ms)
   /\ Parse(FZero, last.unitString).ok) =>
    (last.err = wrongDimension
       <=> FoldedDimensions(last.pre, last.ms)
             # product(TargetUnit(last.unitString)))

\* New has failed with the wrong-dimension error on inputs whose rescaled
\* product is zero or infinite.
C2_Witness ==
  /\ last.op = "New"
  /\ AllResolve(last.pre, last.ms)
  /\ Parse(FZero, last.unitString).ok
  /\ last.err = wrongDimension
  /\ Rescaled(last.pre, last.ms, last.unitString) \in {FZero, FInf}

\* C3: Parse(v, "") succeeds and returns a Measurement with Quantity() = v
\* and MeasurementUnit() = "".
C3_ParseEmptyText ==
  (last.op = "Parse" /\ last.unitString = <<>>) =>
    /\ last.err = NoError
    /\ last.ret # NilMeasurement
    /\ Quantity(heap, Internal(last.ret)) = last.quantity
    /\ MeasurementUnit(heap, Internal(last.ret)) = <<>>

\* C4: a call of Reciprocal or New leaves every measure the caller holds as
\* it was before the call, and the measure Reciprocal returns is not the
\* one it was given.
C4_NoMutation ==
  last.op \in {"Reciprocal", "New"} =>
    /\ \A a \in 1..Len(last.pre) : heap[a] = last.pre[a]
    /\ (last.op = "Reciprocal" /\ last.err = NoError) =>
         last.ret # last.ms[1].addr

\* C5: the measure New returns on success has the parsed unit of the target
\* unit text, its scale exponent included.
C5_ResultHasTargetUnit ==
  (last.op = "New" /\ last.err = NoError) =>
    heap[last.ret].unit = TargetUnit(last.unitString)

\* C6: when the inputs and the target parse and the dimensions agree, New
\* fails with the underflow error exactly when the rescaled value is zero
\* and the product of the input quantities is not.
C6_UnderflowOnlyByRescaling ==
  (/\ last.op = "New"
   /\ AllResolve(last.pre, last.ms)
   /\ Parse(FZero, last.unitString).ok
   /\ FoldedDimensions(last.pre, last.ms)
        = product(TargetUnit(last.unitString))) =>
    (last.err = underflow
       <=> /\ Rescaled(last.pre, last.ms, last.unitString) = FZero
           /\ ProductOfQuantities(last.pre, last.ms) # FZero)

(***************************************************************************)
(* Properties of the JS binding (SpecJs)                                   *)
(***************************************************************************)

\* C7: Parse of a unit text that does not parse, called through the JS
\* binding, completes without dereferencing a nil Measurement and returns a
\* measurement with Quantity() = 0 and MeasurementUnit() = "" and an error
\* with a text.
C7_JsParseOfBadUnit ==
  (last.op = "js.Parse" /\ ~Parse(last.quantity, last.unitString).ok) =>
    /\ ~last.panicked
    /\ last.obj = JsMeasurement(FZero, <<>>)
    /\ last.err # NoError
    /\ ErrorText(last.err) # ErrorText(NoError)

(***************************************************************************)
(* Properties of the parser (SpecParser, SpecLookup)                       *)
(***************************************************************************)

\* Parse accepts the text t.
Parses(t) == Parse(FZero, t).ok

\* The parsed unit of the text t.
UnitOf(t) == parseUnit(t, 0).unit

\* A combinator ('/', the center dot or a space) occurs in t[i..] outside
\* parentheses; depth is the number of parentheses open at i.
RECURSIVE CombinatorOutside(_, _, _)
CombinatorOutside(t, i, depth) ==
  IF i > Len(t) THEN FALSE
  ELSE IF t[i] = "(" THEN CombinatorOutside(t, i + 1, depth + 1)
  ELSE IF t[i] = ")" THEN CombinatorOutside(t, i + 1, depth - 1)
  ELSE IF /\ depth = 0
          /\ \/ t[i] \in {"/", " "}
             \/ (t[i] = "C2" /\ i < Len(t) /\ t[i + 1] = "B7")
    THEN TRUE
  ELSE CombinatorOutside(t, i + 1, depth)

\* t is a term or a parenthesized unit, with or without an exponent.
IsOperand(t) == ~CombinatorOutside(t, 1, 0)

\* The unit a combinator makes of its left-hand and right-hand units.
Combine(s, a, b) ==
  IF s = <<"/">> THEN Multiply(a, UnitReciprocal(b)) ELSE Multiply(a, b)

\* The unit of a symbol of the table.
Symbol(key) == (CHOOSE e \in Range(UnitEntries) : e.Key = key).Unit

\* The text parsed is a x b y c, with combinators x and y, and Parse accepts
\* a, b and c each.
ThreeUnits ==
  /\ last.op = "parseUnit"
  /\ Len(last.parts) = 5
  /\ Parses(last.parts[1])
  /\ Parses(last.parts[3])
  /\ Parses(last.parts[5])

\* C8: the text "a/b/c" has the parsed unit of
\* Multiply(a, Reciprocal(Multiply(b, Reciprocal(c)))) for all units a, b
\* and c that Parse accepts.
C8_ThreeUnitsRightAssociate ==
  (ThreeUnits /\ last.parts[2] = <<"/">> /\ last.parts[4] = <<"/">>) =>
    /\ last.parsed
    /\ last.unit =
         Multiply(UnitOf(last.parts[1]),
                  UnitReciprocal(Multiply(UnitOf(last.parts[3]),
                                          UnitReciprocal(
                                            UnitOf(last.parts[5])))))

\* C8, amended: the right-hand side of a combinator is the whole rest of the
\* unit: for all units a, b and c that Parse accepts, a and b each a term
\* or a parenthesized unit with or without an exponent, and all combinators
\* x and y, the text "a x b y c" has the parsed unit of a combined by x with
\* (b combined by y with c), so "a/b/c" that of
\* Multiply(a, Reciprocal(Multiply(b, Reciprocal(c)))); and "kg·m/(s^2 s)"
\* has the dimension vector of N·Hz.
C8_RightAssociative ==
  /\ (/\ ThreeUnits
      /\ IsOperand(last.parts[1])
      /\ IsOperand(last.parts[3])) =>
       /\ last.err = NoError
       /\ last.parsed
       /\ last.unit =
            Combine(last.parts[2], UnitOf(last.parts[1]),
                    Combine(last.parts[4], UnitOf(last.parts[3]),
                            UnitOf(last.parts[5])))
  /\ (/\ last.op = "parseUnit"
      /\ last.data = <<"k", "g", "C2", "B7", "m", "/", "(", "s", "^", "2",
                       " ", "s", ")">>) =>
       /\ last.parsed
       /\ product(last.unit) = product(Multiply(Symbol(<<"N">>),
                                                Symbol(<<"H", "z">>)))

\* A text "a/b/c" has been parsed whose unit is a/(b/c) and differs from
\* (a/b)/c.
C8_Witness ==
  /\ ThreeUnits
  /\ IsOperand(last.parts[1])
  /\ IsOperand(last.parts[3])
  /\ last.parts[2] = <<"/">>
  /\ last.parts[4] = <<"/">>
  /\ last.parsed
  /\ last.unit # Multiply(Multiply(UnitOf(last.parts[1]),
                                   UnitReciprocal(UnitOf(last.parts[3]))),
                          UnitReciprocal(UnitOf(last.parts[5])))

\* The entries of a table whose key is a prefix of data[pos:].
Matching(entries, data, pos) ==
  {e \in Range(entries) : HasPrefix(data, pos, e.Key)}

\* The keys of a table are in descending order of length, keys of one
\* length in ascending order.
Ordered(table) ==
  \A i, j \in 1..Len(table) :
    i < j => \/ Len(table[i].Key) > Len(table[j].Key)
             \/ /\ Len(table[i].Key) = Len(table[j].Key)
                /\ StrLess(table[i].Key, table[j].Key)

\* C9: when some key of the table is a prefix of the input at the cursor,
\* the prefix lookup and the symbol lookup succeed with an entry whose key is
\* the longest of the keys that are, and leave the cursor that key's length
\* further; and both tables are ordered by descending key length, then
\* ascending.
C9_LongestMatch ==
  /\ (/\ last.op = "parsePrefix"
      /\ Matching(ScaleEntries, last.data, last.pos) # {}) =>
       /\ last.err = NoError
       /\ \E e \in Matching(ScaleEntries, last.data, last.pos) :
            /\ \A f \in Matching(ScaleEntries, last.data, last.pos) :
                 Len(f.Key) <= Len(e.Key)
            /\ last.end = last.pos + Len(e.Key)
            /\ last.scale = e.Scale
  /\ (/\ last.op = "parseSymbol"
      /\ Matching(UnitEntries, last.data, last.pos) # {}) =>
       /\ last.err = NoError
       /\ \E e \in Matching(UnitEntries, last.data, last.pos) :
            /\ \A f \in Matching(UnitEntries, last.data, last.pos) :
                 Len(f.Key) <= Len(e.Key)
            /\ last.end = last.pos + Len(e.Key)
            /\ last.unit = e.Unit
  /\ last.op \in {"parsePrefix", "parseSymbol"} =>
       Ordered(defaultScales) /\ Ordered(defaultUnits)

\* A lookup has been made where two keys of different length are prefixes of
\* the input, and the cursor is the longer key's length further.
C9_Witness ==
  /\ last.op \in {"parsePrefix", "parseSymbol"}
  /\ \E e, f \in Matching(IF last.op = "parsePrefix" THEN ScaleEntries
                          ELSE UnitEntries, last.data, last.pos) :
       /\ Len(e.Key) < Len(f.Key)
       /\ last.end = last.pos + Len(f.Key)

\* The number of bytes b in the text t.
Count(t, b) == Cardinality({i \in 1..Len(t) : t[i] = b})

\* C10: when the right-hand side after whitespace does not parse, parseUnit
\* returns the left-hand unit with the cursor at the start of the right-hand
\* side, and Parse fails with the unparsed-text error; and Parse rejects
\* every text with a '(' that is not closed.
C10_FailedRightHandSide ==
  /\ (/\ last.op = "parseUnit"
      /\ Len(last.parts) = 3
      /\ last.parts[2] = <<" ">>
      /\ IsOperand(last.parts[1])
      /\ Parses(last.parts[1])
      /\ parseUnit(last.parts[3], 0).err # NoError) =>
       /\ last.err = NoError
       /\ last.unit = UnitOf(last.parts[1])
       /\ last.end = Len(last.parts[1]) + 1
       /\ ~last.parsed
       /\ last.perr.cause = unparsedText.kind
  /\ (/\ last.op = "parseUnit"
      /\ Count(last.data, "(") > Count(last.data, ")")) =>
       ~last.parsed

(***************************************************************************)
(* Properties of exponents (SpecExponent)                                  *)
(***************************************************************************)

\* x is an Integer of the grammar: an optional '-', then one decimal digit
\* or more, with a value in -128..127.
IsInteger(x) ==
  LET digits == IF x # <<>> /\ Head(x) = "-" THEN Tail(x) ELSE x
  IN  /\ digits # <<>>
      /\ \A i \in 1..Len(digits) : ByteCode[digits[i]] \in 48..57
      /\ DigitsValue(digits, 0) <= (IF digits = x THEN 127 ELSE 128)

\* The value of the Integer x.
IntegerValue(x) ==
  IF Head(x) = "-" THEN -DigitsValue(Tail(x), 0) ELSE DigitsValue(x, 0)

\* C11: Parse rejects every text in which a '^' is not immediately followed
\* by an Integer (t^x with or without a right-hand side after it, and
\* (t^a)^b), and parseUnit never moves the cursor past a '^' that no
\* Integer follows.
C11_CaretNeedsInteger ==
  /\ (/\ last.op = "parseUnit"
      /\ Len(last.parts) = 4
      /\ ~IsInteger(last.parts[3])) =>
       /\ ~last.parsed
       /\ last.end <= Len(last.parts[1])
  /\ (/\ last.op = "parseUnit"
      /\ Len(last.parts) = 7
      /\ (~IsInteger(last.parts[4]) \/ ~IsInteger(last.parts[7]))) =>
       ~last.parsed

\* C15: the unit of (t^a)^b has the dimension vector a * b * Product(t) as
\* exact integers, for all Integers a and b: no component wraps around the
\* signed 8-bit range.
C15_ExactExponents ==
  (/\ last.op = "parseUnit"
   /\ Len(last.parts) = 7
   /\ IsInteger(last.parts[4])
   /\ IsInteger(last.parts[7])) =>
    /\ last.parsed
    /\ \A i \in 1..numDim :
         last.unit.Dim[i] =
           IntegerValue(last.parts[4]) * IntegerValue(last.parts[7])
             * product(UnitOf(last.parts[2]))[i]

(***************************************************************************)
(* Properties of terms (SpecTerm)                                          *)
(***************************************************************************)

\* The entry with the longest key of a set of entries of one table.
Longest(entries) ==
  CHOOSE e \in entries : \A f \in entries : Len(f.Key) <= Len(e.Key)

\* The prefixes matching at the cursor of the last parseTerm call.
TermPrefixes == Matching(ScaleEntries, last.data, last.pos)

\* Where the longest matching prefix ends (the cursor itself if there is
\* none) and its scale (0 if there is none).
AfterPrefix ==
  IF TermPrefixes = {} THEN last.pos
  ELSE last.pos + Len(Longest(TermPrefixes).Key)

PrefixScale ==
  IF TermPrefixes = {} THEN 0 ELSE Longest(TermPrefixes).Scale

\* The symbols matching after the prefix, and those matching at the cursor.
PrefixedSymbols == Matching(UnitEntries, last.data, AfterPrefix)

BareSymbols == Matching(UnitEntries, last.data, last.pos)

\* The last call was parseTerm(text, 0) and returned a term of the given
\* scale and dimension vector that ends at end.
TermIs(text, scale, dim, end) ==
  (last.op = "parseTerm" /\ last.data = text /\ last.pos = 0) =>
    /\ last.err = NoError
    /\ last.unit.Scale = scale
    /\ last.unit.Dim = dim
    /\ last.end = end

\* C12: a term is the longest prefix and the longest symbol after it, with
\* the prefix's scale; only when no symbol follows the prefix is it the
\* longest symbol at the start position, with scale 0 and the cursor after
\* that symbol; and there is no term when that fails as well.  So "mm" is
\* milli+metre, "m" metre, "kmol" kilo+mol, "mol" the symbol mol, and
\* Parse fails on "molk" with 'k' left unparsed.
C12_TermResolution ==
  /\ (last.op = "parseTerm" /\ PrefixedSymbols # {}) =>
       /\ last.err = NoError
       /\ last.unit.Scale = PrefixScale
       /\ last.unit.Dim = Longest(PrefixedSymbols).Unit.Dim
       /\ last.end = AfterPrefix + Len(Longest(PrefixedSymbols).Key)
  /\ (last.op = "parseTerm" /\ PrefixedSymbols = {} /\ BareSymbols # {}) =>
       /\ last.err = NoError
       /\ last.unit.Scale = 0
       /\ last.unit.Dim = Longest(BareSymbols).Unit.Dim
       /\ last.end = last.pos + Len(Longest(BareSymbols).Key)
  /\ (last.op = "parseTerm" /\ PrefixedSymbols = {} /\ BareSymbols = {}) =>
       last.err # NoError
  /\ TermIs(<<"m", "m">>, -3, mkpoint({<<lengthDim, 1>>}), 2)
  /\ TermIs(<<"m">>, 0, mkpoint({<<lengthDim, 1>>}), 1)
  /\ TermIs(<<"k", "m", "o", "l">>, 3, mkpoint({<<amountDim, 1>>}), 4)
  /\ TermIs(<<"m", "o", "l">>, 0, mkpoint({<<amountDim, 1>>}), 3)
  /\ TermIs(<<"m", "o", "l", "k">>, 0, mkpoint({<<amountDim, 1>>}), 3)
  /\ (last.op = "parseTerm" /\ last.data = <<"m", "o", "l", "k">>) =>
       /\ ~Parses(last.data)
       /\ Parse(FZero, last.data).err =
            makeParseError(last.data, 3, unparsedText)

\* A term has been parsed where a prefix matches, no symbol follows it, and
\* the term is the bare symbol at the start position.
C12_Witness ==
  /\ last.op = "parseTerm"
  /\ TermPrefixes # {}
  /\ PrefixedSymbols = {}
  /\ BareSymbols # {}
  /\ last.err = NoError
  /\ last.unit.Scale = 0
  /\ PrefixScale # 0

\* New(target, Must(Parse(quantity, text))): the error and the measure it
\* returns.
ConvertParsed(target, quantity, text) ==
  LET h == Append(heap, Parse(quantity, text).m)
      r == New(h, target, Internal(Len(h)), <<>>)
  IN  [err |-> r.err, m |-> r.heap[r.ret]]

\* C16: the scale of a term is the scale of its prefix plus the scale of its
\* symbol's table entry (3 for N, -3 for L, ...); so 1 N converts to
\* 1 kg·m/s^2 and 1 L to 1 dm^3.
C16_TermScale ==
  /\ (last.op = "parseTerm" /\ PrefixedSymbols # {}) =>
       last.unit.Scale =
         PrefixScale + Longest(PrefixedSymbols).Unit.Scale
  /\ (last.op = "parseTerm" /\ PrefixedSymbols = {} /\ BareSymbols # {}) =>
       last.unit.Scale = Longest(BareSymbols).Unit.Scale
  /\ (last.op = "parseTerm" /\ last.data = <<"N">>) =>
       /\ ConvertParsed(<<"k", "g", "C2", "B7", "m", "/", "s", "^", "2">>,
                        Float(1, 1, 0), <<"N">>).err = NoError
       /\ ConvertParsed(<<"k", "g", "C2", "B7", "m", "/", "s", "^", "2">>,
                        Float(1, 1, 0), <<"N">>).m.Value = Float(1, 1, 0)
  /\ (last.op = "parseTerm" /\ last.data = <<"L">>) =>
       /\ ConvertParsed(<<"d", "m", "^", "3">>, Float(1, 1, 0),
                        <<"L">>).err = NoError
       /\ ConvertParsed(<<"d", "m", "^", "3">>, Float(1, 1, 0),
                        <<"L">>).m.Value = Float(1, 1, 0)

(***************************************************************************)
(* Further properties of Reciprocal and New (Spec)                         *)
(***************************************************************************)

\* The unit text Reciprocal gives its result: "(" + t + ")^-1", or "" for
\* the empty text.
ReciprocalText(t) ==
  IF t = <<>> THEN <<>> ELSE <<"(">> \o t \o <<")", "^", "-", "1">>

\* C13: Reciprocal(m) fails with divide-by-zero exactly when m's quantity is
\* zero; otherwise (m's unit text being a unit) it returns the quantity
\* 1/value, the parsed unit Reciprocal(unit) and the unit text
\* "(" + original + ")^-1", or "" when the original is empty.
C13_Reciprocal ==
  last.op = "Reciprocal" =>
    /\ (last.err = divideByZero) <=>
         (Quantity(last.pre, last.ms[1]) = FZero)
    /\ (/\ Quantity(last.pre, last.ms[1]) # FZero
        /\ Parses(MeasurementUnit(last.pre, last.ms[1]))) =>
         /\ last.err = NoError
         /\ heap[last.ret] =
              measure(FInv(Quantity(last.pre, last.ms[1])),
                      ReciprocalText(MeasurementUnit(last.pre, last.ms[1])),
                      UnitReciprocal(parse(last.pre, last.ms[1]).m.unit))

\* The last call was Reciprocal(m), it succeeded, and m was a measure that
\* Parse had returned for a quantity that is not zero and whose product
\* with its reciprocal is 1.
ReciprocalOfParsed ==
  /\ last.op = "Reciprocal"
  /\ last.err = NoError
  /\ last.ms[1].addr # 0
  /\ \E q \in Quantities \ {FZero}, t \in UnitTexts :
       /\ Parse(q, t).ok
       /\ last.pre[last.ms[1].addr] = Parse(q, t).m
       /\ FMul(q, FInv(q)) = Float(1, 1, 0)

\* C17: with r = Reciprocal(m) for such a measure m, New("", m, r) succeeds
\* with a dimensionless result of quantity 1.
C17_CancelsWithOwnReciprocal ==
  ReciprocalOfParsed =>
    /\ New(heap, <<>>, last.ms[1], <<Internal(last.ret)>>).err = NoError
    /\ New(heap, <<>>, last.ms[1],
           <<Internal(last.ret)>>).heap[Len(heap) + 1] =
         measure(Float(1, 1, 0), <<>>, pUnit(ZeroPoint, <<>>, 0))

(***************************************************************************)
(* Properties of concurrent callers (SpecConc)                             *)
(***************************************************************************)

\* C14: whatever calls of Parse, New and Reciprocal goroutines make, and
\* however the statements of Reciprocal interleave, zeroValue keeps the
\* contents it was initialized with, and every parsed unit a measure holds
\* has a nil list of dimensionless factors, so that the append in product
\* always allocates and writes to no backing array of the symbol table or
\* of theZero.
C14_SharedStateUnwritten ==
  /\ heap[zeroValue] = measure(FZero, <<>>, pUnit(ZeroPoint, <<>>, 0))
  /\ \A a \in 1..Len(heap) : heap[a].unit.DimLess = <<>>

\* A goroutine has called Reciprocal on zeroValue and been refused, while
\* another is between two writes of Reciprocal to a measure, and a measure
\* of Parse(v, "") is in memory.
C14_Witness ==
  /\ \E g, h \in Goroutines :
       /\ last[g].pc = "idle"
       /\ last[g].addr = zeroValue
       /\ last[g].err = divideByZero
       /\ last[h].pc \in {"unit", "text"}
  /\ \E a \in 2..Len(heap) : heap[a].Unit = <<>>

====
